---- MODULE Spec2Model ----
(***************************************************************************)
(* Session/history store of the chatbot (chatbot/views.py).                *)
(*                                                                         *)
(* The Mongo collection `chats` is a sequence of documents                 *)
(*   [user_id, chat_history: <<[session_id, created_at, messages]>>]       *)
(* and every pymongo call (update_one / find_one) is one atomic step on    *)
(* the first document that matches its filter.  Each request is handled by *)
(* a worker; a chat POST is several store calls, so requests interleave    *)
(* between the calls.  Text is a sequence of one-character strings.        *)
(* get_random_string is modelled as never repeating a value (62^12         *)
(* strings): the n-th call returns RandomString(n).                        *)
(***************************************************************************)
EXTENDS Integers, Sequences, FiniteSets, TLC

VARIABLES
    chat_collection,  \* the Mongo collection: sequence of user documents
    cookies,          \* user_ids held in browser sessions (request.session["user_id"])
    rand_count,       \* number of get_random_string calls made so far
    now,              \* the value datetime.utcnow() returned when last read
    started,          \* number of requests accepted so far
    pc,               \* per worker: position in its handler
    req,              \* per worker: the request being handled
    loc,              \* per worker: the handler's local variables
    last,             \* the request that finished last, and its response
    quiet,            \* workers in chat_view whose user had no $pull since they started
    recorded          \* history: the chat POSTs that finished quiet, since the last
                      \* $pull of their user, in order of completion

vars == <<chat_collection, cookies, rand_count, now, started, pc, req, loc, last,
          quiet, recorded>>

----------------------------------------------------------------------------
(* Bounds of the model *)

MaxRequests == 2

MaxTime == 1

Procs == {"w1", "w2"}

----------------------------------------------------------------------------
(* Text *)

PreviewLen == 60

Whitespace == {" ", "\t"}

RECURSIVE lstrip(_)
lstrip(s) ==
    IF s = <<>> THEN <<>>
    ELSE IF Head(s) \in Whitespace THEN lstrip(Tail(s)) ELSE s

RECURSIVE rstrip(_)
rstrip(s) ==
    IF s = <<>> THEN <<>>
    ELSE IF s[Len(s)] \in Whitespace THEN rstrip(SubSeq(s, 1, Len(s) - 1)) ELSE s

\* str.strip()
strip(s) == rstrip(lstrip(s))

\* s[:n]
Slice(s, n) == SubSeq(s, 1, IF Len(s) < n THEN Len(s) ELSE n)

LongText == [i \in 1..(PreviewLen + 1) |-> IF i = PreviewLen + 1 THEN "z" ELSE "b"]

\* request bodies: the "message" field as sent (has_message FALSE: field missing)
RawMessages == { <<>>, <<" ", "\t">>, <<" ", "h", "i", " ">>, LongText }

ModelErrorPrefix == <<"[", "M", "o", "d", "e", "l", " ", "e", "r", "r", "o", "r", "]", " ">>

\* model.generate_content(user_text), lines 30-32: the call returns a response, or
\* raises with str(e) = a detail.  The calls explored: a text that fits a preview is
\* answered, a longer one makes the call raise.
generate_content(user_text) ==
    IF Len(user_text) <= PreviewLen
    THEN [raised |-> FALSE, text |-> <<"o", "k">>]
    ELSE [raised |-> TRUE, text |-> <<"E">>]

NoText == <<>>

----------------------------------------------------------------------------
(* Identifiers *)

\* user_ids of the browsers that have loaded the page (GET, lines 46-53): each was
\* returned by get_random_string and is kept in that browser's session
Browsers == {"u1", "u2"}

\* the n-th value returned by get_random_string(12)
RandomString(n) == "r" \o ToString(n)

get_random_string_repeat(n) == RandomString(1)

get_random_string(n) == RandomString(n + 1)

MintedIds == { RandomString(n) : n \in 1..rand_count }

\* identifiers a client can put in a request: one it made up, or one a response
\* gave it (a minted session_id is not known before line 98 returns it)
ForeignIds == {"x1"}
ClientIds ==
    ForeignIds \cup (MintedIds \ { loc[p].session_id : p \in { q \in Procs : pc[q] = "push_new" } })

----------------------------------------------------------------------------
(* The document store: pymongo calls on chat_collection *)

Min(S) == CHOOSE x \in S : \A y \in S : x <= y

Turn(message, bot_reply) == [user |-> message, bot |-> bot_reply]

DocsOf(c, user_id) == { i \in 1..Len(c) : c[i].user_id = user_id }

SessionsOf(d, session_id) ==
    { k \in 1..Len(d.chat_history) : d.chat_history[k].session_id = session_id }

\* documents matching {"user_id": u, "chat_history.session_id": sid}
DocsWithSession(c, user_id, session_id) ==
    { i \in DocsOf(c, user_id) : SessionsOf(c[i], session_id) # {} }

ensure_user_doc_reset(c, user_id) ==
    IF DocsOf(c, user_id) # {}
    THEN [c EXCEPT ![Min(DocsOf(c, user_id))].chat_history = <<>>]
    ELSE Append(c, [user_id |-> user_id, chat_history |-> <<>>])

\* update_one({"user_id": u}, {"$setOnInsert": {...}}, upsert=True)
ensure_user_doc(c, user_id) ==
    IF DocsOf(c, user_id) # {}
    THEN c
    ELSE Append(c, [user_id |-> user_id, chat_history |-> <<>>])

push_session_front(c, user_id, session_obj) ==
    IF DocsOf(c, user_id) = {}
    THEN c
    ELSE [c EXCEPT ![Min(DocsOf(c, user_id))].chat_history = <<session_obj>> \o @]

push_session_dropped(c, user_id, session_obj) == c

\* update_one({"user_id": u}, {"$push": {"chat_history": session_obj}})
push_session(c, user_id, session_obj) ==
    IF DocsOf(c, user_id) = {}
    THEN c
    ELSE [c EXCEPT ![Min(DocsOf(c, user_id))].chat_history = Append(@, session_obj)]

push_message_front(c, user_id, session_id, turn) ==
    LET docs == DocsWithSession(c, user_id, session_id) IN
    IF docs = {}
    THEN [coll |-> c, matched_count |-> 0]
    ELSE LET i == Min(docs)
             k == Min(SessionsOf(c[i], session_id))
         IN [coll |-> [c EXCEPT ![i].chat_history[k].messages = <<turn>> \o @],
             matched_count |-> 1]

push_message_as_session(c, user_id, session_id, turn) ==
    LET docs == DocsWithSession(c, user_id, session_id) IN
    IF docs = {}
    THEN [coll |-> c, matched_count |-> 0]
    ELSE LET i == Min(docs)
         IN [coll |-> [c EXCEPT ![i].chat_history =
                           Append(@, [session_id |-> session_id, created_at |-> 0,
                                      messages |-> <<turn>>])],
             matched_count |-> 1]

push_message_last_session(c, user_id, session_id, turn) ==
    LET docs == DocsWithSession(c, user_id, session_id) IN
    IF docs = {}
    THEN [coll |-> c, matched_count |-> 0]
    ELSE LET i == Min(docs)
         IN [coll |-> [c EXCEPT ![i].chat_history[Len(c[i].chat_history)].messages =
                                    Append(@, turn)],
             matched_count |-> 1]

push_message_touch(c, user_id, session_id, turn) ==
    LET docs == DocsWithSession(c, user_id, session_id) IN
    IF docs = {}
    THEN [coll |-> c, matched_count |-> 0]
    ELSE LET i == Min(docs)
             k == Min(SessionsOf(c[i], session_id))
         IN [coll |-> [c EXCEPT ![i].chat_history[k].messages = Append(@, turn),
                                ![i].chat_history[k].created_at = @ + 1],
             matched_count |-> 1]

\* update_one({"user_id": u, "chat_history.session_id": sid},
\*            {"$push": {"chat_history.$.messages": turn}})
\* the positional $ is the first array element that matches
push_message(c, user_id, session_id, turn) ==
    LET docs == DocsWithSession(c, user_id, session_id) IN
    IF docs = {}
    THEN [coll |-> c, matched_count |-> 0]
    ELSE LET i == Min(docs)
             k == Min(SessionsOf(c[i], session_id))
         IN [coll |-> [c EXCEPT ![i].chat_history[k].messages = Append(@, turn)],
             matched_count |-> 1]

RECURSIVE Without(_, _)
Without(sessions, session_id) ==
    IF sessions = <<>> THEN <<>>
    ELSE IF Head(sessions).session_id = session_id
         THEN Without(Tail(sessions), session_id)
         ELSE <<Head(sessions)>> \o Without(Tail(sessions), session_id)

pull_session_all(c, user_id, session_id) ==
    LET docs == DocsOf(c, user_id) IN
    IF docs = {}
    THEN [coll |-> c, modified_count |-> 0]
    ELSE LET i == Min(docs) IN
         IF SessionsOf(c[i], session_id) = {}
         THEN [coll |-> c, modified_count |-> 0]
         ELSE [coll |-> [c EXCEPT ![i].chat_history = <<>>], modified_count |-> 1]

pull_session_nothing(c, user_id, session_id) == [coll |-> c, modified_count |-> 0]

\* update_one({"user_id": u}, {"$pull": {"chat_history": {"session_id": sid}}})
\* $pull removes every matching element
pull_session(c, user_id, session_id) ==
    IF DocsOf(c, user_id) = {}
    THEN [coll |-> c, modified_count |-> 0]
    ELSE LET i == Min(DocsOf(c, user_id))
             kept == Without(c[i].chat_history, session_id)
         IN [coll |-> [c EXCEPT ![i].chat_history = kept],
             modified_count |-> IF kept = c[i].chat_history THEN 0 ELSE 1]

----------------------------------------------------------------------------
(* The read handlers, as functions of the collection *)

RECURSIVE reversed(_)
reversed(s) == IF s = <<>> THEN <<>> ELSE Append(reversed(Tail(s)), Head(s))

Summary(s) ==
    [session_id |-> s.session_id,
     created_at |-> s.created_at,
     preview    |-> IF s.messages = <<>> THEN NoText
                    ELSE Slice(s.messages[Len(s.messages)].user, PreviewLen)]

history_list_oldest_first(c, user_id) ==
    IF user_id = "" \/ DocsOf(c, user_id) = {}
    THEN <<>>
    ELSE LET h == c[Min(DocsOf(c, user_id))].chat_history
         IN [k \in 1..Len(h) |-> Summary(h[k])]

\* history_list: the "sessions" of the response
history_list(c, user_id) ==
    IF user_id = "" \/ DocsOf(c, user_id) = {}
    THEN <<>>
    ELSE LET h == c[Min(DocsOf(c, user_id))].chat_history
         IN reversed([k \in 1..Len(h) |-> Summary(h[k])])

history_detail_any_user(c, user_id, session_id) ==
    LET docs == { i \in 1..Len(c) : SessionsOf(c[i], session_id) # {} } IN
    IF user_id = "" \/ docs = {}
    THEN [history |-> <<>>]
    ELSE LET d == c[Min(docs)]
             session == d.chat_history[Min(SessionsOf(d, session_id))]
         IN [history |-> session.messages, created_at |-> session.created_at]

\* history_detail: the response body
history_detail(c, user_id, session_id) ==
    IF user_id = "" \/ DocsWithSession(c, user_id, session_id) = {}
    THEN [history |-> <<>>]
    ELSE LET d == c[Min(DocsWithSession(c, user_id, session_id))]
             session == d.chat_history[Min(SessionsOf(d, session_id))]
         IN [history |-> session.messages, created_at |-> session.created_at]

----------------------------------------------------------------------------
(* Requests, handler locals and responses *)

NoRequest ==
    [view |-> "none", method |-> "GET", cookie |-> "", has_message |-> FALSE,
     message |-> NoText, session_id |-> ""]

NoLocals ==
    [user_id |-> "", message |-> NoText, session_id |-> "", bot_reply |-> NoText,
     created_at |-> 0]

NoResponse == [status |-> 0, kind |-> "none", body |-> [none |-> TRUE]]

Finished(r, response, called) == [req |-> r, resp |-> response, model_called |-> called]

\* chat POST bodies: {message?, session_id?}; the page's script posts from a browser
\* that has loaded the page, so a POST carries a user_id
ChatPosts ==
    { [view |-> "chat", method |-> "POST", cookie |-> u, has_message |-> TRUE,
       message |-> m, session_id |-> sid] :
        u \in cookies, m \in RawMessages, sid \in ClientIds \cup {""} }
    \cup
    { [view |-> "chat", method |-> "POST", cookie |-> u, has_message |-> FALSE,
       message |-> NoText, session_id |-> sid] :
        u \in cookies, sid \in ClientIds \cup {""} }

ChatGets ==
    { [NoRequest EXCEPT !.view = "chat", !.cookie = u] : u \in cookies \cup {""} }

message_unstripped(data) == IF data.has_message THEN data.message ELSE NoText

\* (data.get("message") or "").strip()
message_of(data) == IF data.has_message THEN strip(data.message) ELSE NoText

Init ==
    /\ chat_collection = <<>>
    /\ cookies = Browsers
    /\ rand_count = 0
    /\ now = 0
    /\ started = 0
    /\ pc = [p \in Procs |-> "idle"]
    /\ req = [p \in Procs |-> NoRequest]
    /\ loc = [p \in Procs |-> NoLocals]
    /\ last = Finished(NoRequest, NoResponse, FALSE)
    /\ quiet = {}
    /\ recorded = <<>>

\* the worker has returned its response
Return(p, response, called) ==
    /\ pc' = [pc EXCEPT ![p] = "idle"]
    /\ req' = [req EXCEPT ![p] = NoRequest]
    /\ loc' = [loc EXCEPT ![p] = NoLocals]
    /\ last' = Finished(req[p], response, called)
    /\ quiet' = quiet \ {p}

----------------------------------------------------------------------------
(* chat_view *)

generate_bot_reply_bare(user_text) == generate_content(user_text).text

\* generate_bot_reply, lines 27-37
generate_bot_reply(user_text) ==
    LET outcome == generate_content(user_text) IN
    IF outcome.raised THEN ModelErrorPrefix \o outcome.text ELSE outcome.text

\* lines 46-69: user_id from the browser session (minted when absent), GET renders
\* the page, a POST without a message is a 400, otherwise the model is called
ChatStart(p) ==
    /\ pc[p] = "idle"
    /\ started < MaxRequests
    /\ started' = started + 1
    /\ \E r \in ChatPosts \cup ChatGets :
        LET user_id == IF r.cookie = "" THEN get_random_string(rand_count) ELSE r.cookie
            message == message_of(r)
        IN
        /\ rand_count' = IF r.cookie = "" THEN rand_count + 1 ELSE rand_count
        /\ cookies' = cookies \cup {user_id}
        /\ IF r.method = "GET"
           THEN /\ last' = Finished(r, [status |-> 200, kind |-> "page",
                                        body |-> [none |-> TRUE]], FALSE)
                /\ UNCHANGED <<pc, req, loc, quiet>>
           ELSE IF message = NoText
           THEN /\ last' = Finished(r, [status |-> 400, kind |-> "bad_request",
                                        body |-> [none |-> TRUE]], FALSE)
                /\ UNCHANGED <<pc, req, loc, quiet>>
           ELSE /\ pc' = [pc EXCEPT ![p] = "ensure"]
                /\ req' = [req EXCEPT ![p] = r]
                /\ loc' = [loc EXCEPT ![p] = [NoLocals EXCEPT
                               !.user_id = user_id,
                               !.message = message,
                               !.session_id = r.session_id,
                               !.bot_reply = generate_bot_reply(message)]]
                /\ quiet' = quiet \cup {p}
                /\ last' = last
    /\ UNCHANGED <<chat_collection, now, recorded>>

\* datetime.utcnow(): time does not run backwards between two reads
utcnow == { t \in now..MaxTime : t <= now + 1 }

\* line 72; then, without a session_id, lines 76-81: mint one and read the clock
EnsureUser(p) ==
    /\ pc[p] = "ensure"
    /\ chat_collection' = ensure_user_doc(chat_collection, loc[p].user_id)
    /\ IF loc[p].session_id = ""
       THEN /\ \E t \in utcnow :
                /\ now' = t
                /\ loc' = [loc EXCEPT ![p].session_id = get_random_string(rand_count),
                                      ![p].created_at = t]
            /\ rand_count' = rand_count + 1
            /\ pc' = [pc EXCEPT ![p] = "push_new"]
       ELSE /\ pc' = [pc EXCEPT ![p] = "append"]
            /\ UNCHANGED <<rand_count, now, loc>>
    /\ UNCHANGED <<cookies, started, req, last, quiet, recorded>>

session_obj_empty(l) ==
    [session_id |-> l.session_id, created_at |-> l.created_at, messages |-> <<>>]

session_obj(l) ==
    [session_id |-> l.session_id, created_at |-> l.created_at,
     messages |-> <<Turn(l.message, l.bot_reply)>>]

\* line 98
JsonReply(l) ==
    [status |-> 200, kind |-> "json",
     body |-> [reply |-> l.bot_reply, session_id |-> l.session_id]]

\* history: a chat POST has finished
Record(p) ==
    IF p \in quiet
    THEN Append(recorded, [user_id |-> loc[p].user_id, session_id |-> req[p].session_id,
                           turn |-> Turn(loc[p].message, loc[p].bot_reply)])
    ELSE recorded

\* line 82, then the response of line 98
PushNew(p) ==
    /\ pc[p] = "push_new"
    /\ chat_collection' = push_session(chat_collection, loc[p].user_id, session_obj(loc[p]))
    /\ Return(p, JsonReply(loc[p]), TRUE)
    /\ recorded' = Record(p)
    /\ UNCHANGED <<cookies, rand_count, now, started>>

\* lines 85-89: append to the matching session; matched: the response of line 98
AppendTurn(p) ==
    /\ pc[p] = "append"
    /\ LET res == push_message(chat_collection, loc[p].user_id, loc[p].session_id,
                               Turn(loc[p].message, loc[p].bot_reply))
       IN /\ chat_collection' = res.coll
          /\ IF res.matched_count = 0
             THEN /\ pc' = [pc EXCEPT ![p] = "heal"]
                  /\ UNCHANGED <<req, loc, last, quiet, recorded>>
             ELSE /\ Return(p, JsonReply(loc[p]), TRUE)
                  /\ recorded' = Record(p)
    /\ UNCHANGED <<cookies, rand_count, now, started>>

heal_session_id_minted(l, n) == get_random_string(n)

\* the session_id of the session created when nothing matched, lines 91-92
heal_session_id(l, n) == l.session_id

\* lines 91-95: build the session object, reading the clock
HealSession(p) ==
    /\ pc[p] = "heal"
    /\ \E t \in utcnow :
        /\ now' = t
        /\ loc' = [loc EXCEPT ![p].session_id = heal_session_id(loc[p], rand_count),
                              ![p].created_at = t]
    /\ pc' = [pc EXCEPT ![p] = "push_heal"]
    /\ UNCHANGED <<chat_collection, cookies, rand_count, started, req, last, quiet,
                   recorded>>

\* line 96, then the response of line 98
PushHeal(p) ==
    /\ pc[p] = "push_heal"
    /\ chat_collection' = push_session(chat_collection, loc[p].user_id, session_obj(loc[p]))
    /\ Return(p, JsonReply(loc[p]), TRUE)
    /\ recorded' = Record(p)
    /\ UNCHANGED <<cookies, rand_count, now, started>>

----------------------------------------------------------------------------
(* history_list, history_detail, history_delete: one store call each *)

ReadRequests(view) ==
    { [NoRequest EXCEPT !.view = view, !.cookie = u, !.session_id = sid] :
        u \in cookies \cup {""}, sid \in IF view = "list" THEN {""} ELSE ClientIds }

DeleteRequests ==
    { [NoRequest EXCEPT !.view = "delete", !.method = m, !.cookie = u, !.session_id = sid] :
        m \in {"GET", "POST"}, u \in cookies \cup {""}, sid \in ClientIds }

Accept(p) ==
    /\ pc[p] = "idle"
    /\ started < MaxRequests
    /\ started' = started + 1

\* lines 101-126
HistoryList(p) ==
    /\ Accept(p)
    /\ \E r \in ReadRequests("list") :
        last' = Finished(r, [status |-> 200, kind |-> "json",
                             body |-> [sessions |-> history_list(chat_collection, r.cookie)]],
                         FALSE)
    /\ UNCHANGED <<chat_collection, cookies, rand_count, now, pc, req, loc, quiet, recorded>>

\* lines 129-144
HistoryDetail(p) ==
    /\ Accept(p)
    /\ \E r \in ReadRequests("detail") :
        last' = Finished(r, [status |-> 200, kind |-> "json",
                             body |-> history_detail(chat_collection, r.cookie, r.session_id)],
                         FALSE)
    /\ UNCHANGED <<chat_collection, cookies, rand_count, now, pc, req, loc, quiet, recorded>>

RECURSIVE SelectOthers(_, _)
SelectOthers(log, user_id) ==
    IF log = <<>> THEN <<>>
    ELSE IF Head(log).user_id = user_id
         THEN SelectOthers(Tail(log), user_id)
         ELSE <<Head(log)>> \o SelectOthers(Tail(log), user_id)

\* lines 146-168
HistoryDelete(p) ==
    /\ Accept(p)
    /\ \E r \in DeleteRequests :
        IF r.cookie = ""
        THEN /\ last' = Finished(r, [status |-> 400, kind |-> "json",
                                     body |-> [error |-> "no user_id in session"]], FALSE)
             /\ UNCHANGED <<chat_collection, quiet, recorded>>
        ELSE IF r.method # "POST"
        THEN /\ last' = Finished(r, [status |-> 400, kind |-> "bad_request",
                                     body |-> [none |-> TRUE]], FALSE)
             /\ UNCHANGED <<chat_collection, quiet, recorded>>
        ELSE LET res == pull_session(chat_collection, r.cookie, r.session_id) IN
             /\ chat_collection' = res.coll
             /\ quiet' = { q \in quiet : loc[q].user_id # r.cookie }
             /\ recorded' = SelectOthers(recorded, r.cookie)
             /\ last' = Finished(r,
                    IF res.modified_count > 0
                    THEN [status |-> 200, kind |-> "json",
                          body |-> [deleted |-> TRUE, session_id |-> r.session_id]]
                    ELSE [status |-> 404, kind |-> "json",
                          body |-> [deleted |-> FALSE, error |-> "session not found"]],
                    FALSE)
    /\ UNCHANGED <<cookies, rand_count, now, pc, req, loc>>

Next ==
    \/ \E p \in Procs : ChatStart(p)
    \/ \E p \in Procs : EnsureUser(p)
    \/ \E p \in Procs : PushNew(p)
    \/ \E p \in Procs : AppendTurn(p)
    \/ \E p \in Procs : HealSession(p)
    \/ \E p \in Procs : PushHeal(p)
    \/ \E p \in Procs : HistoryList(p)
    \/ \E p \in Procs : HistoryDetail(p)
    \/ \E p \in Procs : HistoryDelete(p)

Spec == Init /\ [][Next]_vars

\* A collection that already holds sessions: the state after one browser posted
\* {message: " hi ", session_id: "x1"} (lines 89-96 created "x1") and then
\* {message: " hi "} (lines 76-82 created "r1"); the next requests start from it.
SeedUser == "u1"

SeedTurn == Turn(<<"h", "i">>, <<"o", "k">>)

SeedHistory ==
    << [session_id |-> "x1", created_at |-> 0, messages |-> <<SeedTurn>>],
       [session_id |-> "r1", created_at |-> 0, messages |-> <<SeedTurn>>] >>

\* reached from Init by those two POSTs
SeedState ==
    /\ chat_collection = << [user_id |-> SeedUser, chat_history |-> SeedHistory] >>
    /\ cookies = Browsers
    /\ rand_count = 1
    /\ now = 0
    /\ pc = [p \in Procs |-> "idle"]
    /\ req = [p \in Procs |-> NoRequest]
    /\ loc = [p \in Procs |-> NoLocals]
    /\ last = Finished([view |-> "chat", method |-> "POST", cookie |-> SeedUser,
                        has_message |-> TRUE, message |-> <<" ", "h", "i", " ">>,
                        session_id |-> ""],
                       [status |-> 200, kind |-> "json",
                        body |-> [reply |-> <<"o", "k">>, session_id |-> "r1"]], TRUE)
    /\ quiet = {}
    /\ recorded = << [user_id |-> SeedUser, session_id |-> "x1", turn |-> SeedTurn],
                     [user_id |-> SeedUser, session_id |-> "", turn |-> SeedTurn] >>

\* the requests counted from here on
SeedInit == SeedState /\ started = 0

SpecSeeded == SeedInit /\ [][Next]_vars

----------------------------------------------------------------------------
(* Properties *)

\* the sessions stored for a user (of the first document found for it)
HistoryOf(c, user_id) ==
    IF DocsOf(c, user_id) = {} THEN <<>> ELSE c[Min(DocsOf(c, user_id))].chat_history

Occurrences(seq, x) == Cardinality({ k \in 1..Len(seq) : seq[k] = x })

C2_NoLostTurn ==
    \A i, j \in 1..Len(recorded) :
        (/\ i < j
         /\ recorded[i].user_id = recorded[j].user_id
         /\ recorded[i].session_id = recorded[j].session_id
         /\ recorded[i].session_id # "")
        => LET got == history_detail(chat_collection, recorded[i].user_id,
                                     recorded[i].session_id).history
           IN IF recorded[i].turn = recorded[j].turn
              THEN Occurrences(got, recorded[i].turn) >= 2
              ELSE /\ Occurrences(got, recorded[i].turn) >= 1
                   /\ Occurrences(got, recorded[j].turn) >= 1

\* steps of a worker
EnsureStep(p) == pc[p] = "ensure" /\ pc'[p] # "ensure"
MintStep(p) == pc[p] = "ensure" /\ pc'[p] = "push_new"
NewPushStep(p) == pc[p] = "push_new" /\ pc'[p] = "idle"
MissStep(p) == pc[p] = "append" /\ pc'[p] = "heal"
MatchStep(p) == pc[p] = "append" /\ pc'[p] = "idle"
HealPushStep(p) == pc[p] = "push_heal" /\ pc'[p] = "idle"

TurnOf(p) == Turn(loc[p].message, loc[p].bot_reply)

\* C3: EnsureUser leaves exactly one UserDocument for the user_id, however many
\* calls run and however they interleave, and on an existing document it changes
\* nothing (its sessions list is kept).
C3_EnsureUserOnce ==
    [][/\ \A i, j \in 1..Len(chat_collection') :
            chat_collection'[i].user_id = chat_collection'[j].user_id => i = j
       /\ \A p \in Procs : EnsureStep(p) =>
            LET u == loc[p].user_id IN
            /\ Cardinality(DocsOf(chat_collection', u)) = 1
            /\ DocsOf(chat_collection, u) # {} => chat_collection' = chat_collection
            /\ DocsOf(chat_collection, u) = {} =>
                  chat_collection' =
                      Append(chat_collection, [user_id |-> u, chat_history |-> <<>>])
      ]_vars

C3_Witness ==
    \E p, q \in Procs :
        /\ p # q
        /\ pc[p] \notin {"idle", "ensure"}
        /\ pc[q] \notin {"idle", "ensure"}
        /\ loc[p].user_id = loc[q].user_id
        /\ Cardinality(DocsOf(chat_collection, loc[p].user_id)) = 1

\* the step of line 96 appends, at the tail of the user's sessions, a Session that
\* holds exactly the submitted Turn under the identifier the response returns
HealedSessionPushed(p) ==
    /\ last'.resp.status = 200
    /\ HistoryOf(chat_collection', loc[p].user_id) =
           Append(HistoryOf(chat_collection, loc[p].user_id),
                  [session_id |-> last'.resp.body.session_id,
                   created_at |-> loc[p].created_at,
                   messages |-> <<TurnOf(p)>>])

\* C4 (as stated): a chat POST whose non-empty session_id matches no Session of the
\* user does not fail, mints a fresh identifier different from the one supplied,
\* appends a new Session holding exactly the Turn, and returns the fresh identifier.
C4_StaleIdMintsFresh ==
    [][\A p \in Procs :
        /\ MissStep(p) => chat_collection' = chat_collection
        /\ HealPushStep(p) =>
            /\ HealedSessionPushed(p)
            /\ last'.resp.body.session_id # req[p].session_id
      ]_vars

\* C4 (amended): such a POST does not fail and reuses the supplied identifier: a new
\* Session with that identifier holding exactly the Turn is appended to the user's
\* sessions, and the identifier returned equals the one supplied.
C4_StaleIdReused ==
    [][\A p \in Procs :
        /\ MissStep(p) =>
            /\ chat_collection' = chat_collection
            /\ DocsWithSession(chat_collection, loc[p].user_id, req[p].session_id) = {}
        /\ HealPushStep(p) =>
            /\ HealedSessionPushed(p)
            /\ req[p].session_id # ""
            /\ last'.resp.body.session_id = req[p].session_id
      ]_vars

C4_Witness ==
    /\ started = 1
    /\ last.req.view = "chat"
    /\ last.req.session_id \in ForeignIds
    /\ last.resp.status = 200
    /\ last.resp.body.session_id = last.req.session_id
    /\ LET h == HistoryOf(chat_collection, last.req.cookie) IN
       /\ Len(h) = 1
       /\ h[1].session_id = last.req.session_id
       /\ Len(h[1].messages) = 1

\* C5: a chat POST for an existing Session S (nothing else interleaved) extends what
\* history_detail returns for S by exactly its Turn, at the tail, the earlier Turns
\* and created_at unchanged; so K such POSTs in a row leave the n earlier Turns
\* followed by the K new ones in submission order.
C5_AppendInOrder ==
    [][\A p \in Procs :
        LET u == loc[p].user_id
            sid == loc[p].session_id
            before == history_detail(chat_collection, u, sid)
            after == history_detail(chat_collection', u, sid)
        IN
        /\ (EnsureStep(p) /\ sid # "") => after = before
        /\ MatchStep(p) =>
            /\ DocsWithSession(chat_collection, u, sid) # {}
            /\ after.history = Append(before.history, TurnOf(p))
            /\ after.created_at = before.created_at
            /\ Len(HistoryOf(chat_collection', u)) = Len(HistoryOf(chat_collection, u))
      ]_vars

C5_Witness ==
    /\ last.req.view = "chat"
    /\ last.req.session_id # ""
    /\ last.resp.status = 200
    /\ LET got == history_detail(chat_collection, last.req.cookie,
                                 last.req.session_id).history
       IN /\ Len(got) >= 2
          /\ got[Len(got)] = Turn(strip(last.req.message), last.resp.body.reply)
          /\ got[1] # got[Len(got)]

StoredIds(c) ==
    UNION { { c[i].chat_history[k].session_id : k \in 1..Len(c[i].chat_history) } :
            i \in 1..Len(c) }

\* C6: a chat POST without session_id gets an identifier that no other call got and
\* that is not stored, adds exactly one Session, at the tail of the user's sessions,
\* whose messages is exactly the submitted Turn, and returns that identifier.
C6_NewSessionDistinct ==
    [][\A p \in Procs :
        /\ MintStep(p) =>
            LET sid == loc'[p].session_id IN
            /\ sid # ""
            /\ sid \notin MintedIds \cup ForeignIds \cup cookies
            /\ sid \notin StoredIds(chat_collection')
            /\ \A q \in Procs \ {p} : loc[q].session_id # sid
        /\ NewPushStep(p) =>
            LET u == loc[p].user_id
                sid == loc[p].session_id
            IN
            /\ req[p].session_id = ""
            /\ sid \notin StoredIds(chat_collection)
            /\ HistoryOf(chat_collection', u) =
                   Append(HistoryOf(chat_collection, u),
                          [session_id |-> sid, created_at |-> loc[p].created_at,
                           messages |-> <<TurnOf(p)>>])
            /\ last'.resp.status = 200
            /\ last'.resp.body.session_id = sid
      ]_vars

C6_Witness ==
    /\ last.req.view = "chat"
    /\ last.req.session_id = ""
    /\ last.resp.status = 200
    /\ LET h == HistoryOf(chat_collection, last.req.cookie) IN
       /\ Len(h) = 2
       /\ h[2].session_id = last.resp.body.session_id
       /\ h[1].session_id \in MintedIds
       /\ h[1].session_id # h[2].session_id

\* C7: once a delete of S by a user has run its $pull (and no Turn was written
\* since), history_detail for S has an empty history and no created_at, and a second
\* delete of S removes nothing (404) and leaves the collection as it is; also when S
\* was not there before the first delete.
C7_DeleteThenNotFound ==
    (last.req.view = "delete" /\ last.resp.status \in {200, 404}) =>
        LET u == last.req.cookie
            sid == last.req.session_id
        IN
        /\ history_detail(chat_collection, u, sid) = [history |-> <<>>]
        /\ pull_session(chat_collection, u, sid) =
               [coll |-> chat_collection, modified_count |-> 0]

C7_Witness ==
    /\ last.req.view = "delete"
    /\ last.resp.status = 200
    /\ last.resp.body.deleted
    /\ last.resp.body.session_id = last.req.session_id

\* the first n characters of a text, stated without slicing
IsPrefixOfLen(out, text, n) ==
    /\ Len(out) = (IF Len(text) < n THEN Len(text) ELSE n)
    /\ \A i \in 1..Len(out) : out[i] = text[i]

\* what ListSessions is to return for a user, given the collection
ListedRight(c, user_id, out) ==
    LET h == HistoryOf(c, user_id) IN
    /\ Len(out) = Len(h)
    /\ \A k \in 1..Len(h) :
        LET s == h[Len(h) + 1 - k] IN
        /\ out[k].session_id = s.session_id
        /\ out[k].created_at = s.created_at
        /\ IF s.messages = <<>>
           THEN out[k].preview = NoText
           ELSE IsPrefixOfLen(out[k].preview, s.messages[Len(s.messages)].user, PreviewLen)

\* C8: history_list returns one summary per stored Session, in the reverse of the
\* storage order, with the Session's session_id and created_at and the first 60
\* characters of the user text of its last Turn; an empty list for a user without a
\* document; and it changes nothing in storage.
C8_ListSessions ==
    [][/\ \A u \in cookies' \cup {""} :
            ListedRight(chat_collection', u, history_list(chat_collection', u))
       /\ (last'.req.view = "list" /\ started' # started) =>
            /\ chat_collection' = chat_collection
            /\ last'.resp.status = 200
            /\ ListedRight(chat_collection, last'.req.cookie, last'.resp.body.sessions)
            /\ DocsOf(chat_collection, last'.req.cookie) = {} =>
                   last'.resp.body.sessions = <<>>
      ]_vars

C8_Witness ==
    /\ last.req.view = "list"
    /\ last.resp.status = 200
    /\ Len(last.resp.body.sessions) >= 1
    /\ Len(last.resp.body.sessions[1].preview) = PreviewLen
    /\ Len(HistoryOf(chat_collection, last.req.cookie)[1].messages[1].user) > PreviewLen

\* the message of a chat POST is missing, empty or whitespace only
IsBlank(r) ==
    \/ ~r.has_message
    \/ \A i \in 1..Len(r.message) : r.message[i] \in Whitespace

\* C9: a chat POST whose message is missing, empty or whitespace-only is answered
\* 400 at once, without a model call and without any store operation: no worker ever
\* carries it past validation, and the step leaves the collection as it is.
C9_BlankRejected ==
    [][/\ \A p \in Procs : pc'[p] # "idle" => ~IsBlank(req'[p])
       /\ (started' # started /\ last'.req.view = "chat" /\ last'.req.method = "POST"
           /\ pc' = pc /\ IsBlank(last'.req)) =>
            /\ last'.resp.status = 400
            /\ ~last'.model_called
            /\ chat_collection' = chat_collection
       /\ \A i \in 1..Len(chat_collection') :
            \A k \in 1..Len(chat_collection'[i].chat_history) :
                LET m == chat_collection'[i].chat_history[k].messages IN
                \A n \in 1..Len(m) :
                    \E x \in 1..Len(m[n].user) : m[n].user[x] \notin Whitespace
      ]_vars

C9_Witness ==
    /\ last.req.view = "chat"
    /\ last.req.method = "POST"
    /\ last.req.has_message
    /\ last.req.message # NoText
    /\ IsBlank(last.req)
    /\ last.resp.status = 400
    /\ started = 1
    /\ chat_collection = <<>>

StartsWith(text, prefix) ==
    /\ Len(text) >= Len(prefix)
    /\ \A i \in 1..Len(prefix) : text[i] = prefix[i]

\* C10: when the model call raises on a valid message the POST still succeeds: the
\* Turn stored has bot text "[Model error] " followed by the failure detail, the
\* reply returned is that same text, and the session_id returned is not empty.
C10_ModelErrorRecorded ==
    [][\A p \in Procs :
        (/\ pc[p] \in {"push_new", "append", "push_heal"}
         /\ pc'[p] = "idle"
         /\ generate_content(loc[p].message).raised) =>
            LET bot == ModelErrorPrefix \o generate_content(loc[p].message).text
                sid == last'.resp.body.session_id
                h == HistoryOf(chat_collection', loc[p].user_id)
            IN
            /\ last'.resp.status = 200
            /\ last'.resp.body.reply = bot
            /\ sid # ""
            /\ \E k \in 1..Len(h) :
                /\ h[k].session_id = sid
                /\ h[k].messages # <<>>
                /\ h[k].messages[Len(h[k].messages)] = Turn(loc[p].message, bot)
      ]_vars

C10_Witness ==
    /\ last.req.view = "chat"
    /\ last.resp.status = 200
    /\ last.model_called
    /\ StartsWith(last.resp.body.reply, ModelErrorPrefix)
    /\ Len(last.resp.body.reply) > Len(ModelErrorPrefix)
    /\ last.resp.body.session_id # ""
    /\ \E k \in 1..Len(HistoryOf(chat_collection, last.req.cookie)) :
        LET s == HistoryOf(chat_collection, last.req.cookie)[k] IN
        /\ s.session_id = last.resp.body.session_id
        /\ s.messages[Len(s.messages)].bot = last.resp.body.reply

\* the sessions of h other than those named sid, in the order of h
Others(h, sid) == SelectSeq(h, LAMBDA x : x.session_id # sid)

IdsIn(h) == { h[k].session_id : k \in 1..Len(h) }

\* C11 (as stated): the created_at tied to a (user_id, session_id) is the same in
\* every state in which that session_id is present; here for the sessions the
\* seeded collection starts with.
C11_CreatedAtFixed ==
    \A k \in 1..Len(SeedHistory) :
        LET h == HistoryOf(chat_collection, SeedUser) IN
        \A j \in 1..Len(h) :
            h[j].session_id = SeedHistory[k].session_id =>
                h[j].created_at = SeedHistory[k].created_at

\* C11 (amended): created_at is set when the Session is created with its first Turn
\* and no step changes it while that Session stays stored; a session_id that was
\* deleted and is supplied again names a new Session with its own created_at.
C11_CreatedAtKept ==
    [][\A i \in 1..Len(chat_collection') :
        LET h == HistoryOf(chat_collection, chat_collection'[i].user_id)
            g == chat_collection'[i].chat_history
        IN
        \/ /\ Len(g) >= Len(h)
           /\ \A k \in 1..Len(h) :
                /\ g[k].session_id = h[k].session_id
                /\ g[k].created_at = h[k].created_at
           /\ \A k \in (Len(h) + 1)..Len(g) :
                /\ Len(g[k].messages) = 1
                /\ g[k].created_at \in 0..now'
        \/ \E sid \in IdsIn(h) : g = Others(h, sid)
      ]_vars

C11_Witness ==
    LET h == HistoryOf(chat_collection, SeedUser) IN
    /\ Len(h) = Len(SeedHistory)
    /\ h[1].session_id = SeedHistory[1].session_id
    /\ h[1].created_at = SeedHistory[1].created_at
    /\ Len(h[1].messages) = 2
    /\ now > SeedHistory[1].created_at

\* g is h with one Turn appended to the messages of the Session at place k
ExtendedAt(h, g, k) ==
    /\ Len(g[k].messages) = Len(h[k].messages) + 1
    /\ g = [h EXCEPT ![k].messages = Append(@, g[k].messages[Len(g[k].messages)])]

\* g is h with one more Session, holding one Turn, at the tail
SessionAdded(h, g) ==
    /\ Len(g) = Len(h) + 1
    /\ Len(g[Len(g)].messages) = 1
    /\ g = Append(h, g[Len(g)])

\* C12: in every step each user's stored Sessions are unchanged, or one Session's
\* messages got exactly one Turn at the tail (the earlier Turns identical and in
\* place), or a Session with its first Turn was added, or whole Sessions were
\* removed by a delete; no step edits, reorders or removes a single Turn.
C12_AppendOnly ==
    [][\A i \in 1..Len(chat_collection') :
        LET h == HistoryOf(chat_collection, chat_collection'[i].user_id)
            g == chat_collection'[i].chat_history
        IN
        \/ g = h
        \/ Len(g) = Len(h) /\ \E k \in 1..Len(h) : ExtendedAt(h, g, k)
        \/ SessionAdded(h, g)
        \/ /\ last'.req.view = "delete"
           /\ last'.resp.status = 200
           /\ \E sid \in IdsIn(h) : g = Others(h, sid)
      ]_vars

C12_Witness ==
    \E i \in 1..Len(chat_collection) :
        \E k \in 1..Len(chat_collection[i].chat_history) :
            LET m == chat_collection[i].chat_history[k].messages IN
            /\ Len(m) = 2
            /\ m[1].user # m[2].user
            /\ Len(m[2].user) > PreviewLen

\* C13: in every reachable state created_at is nondecreasing along each user's
\* stored sessions (storage order is creation order), also after interleaved
\* new-session POSTs of one user.
C13_StorageChronological ==
    \A i \in 1..Len(chat_collection) :
        LET h == chat_collection[i].chat_history IN
        \A k1, k2 \in 1..Len(h) : k1 < k2 => h[k1].created_at <= h[k2].created_at

\* two workers of one user about to append to two different Sessions that both exist
TwoAppends(p, q) ==
    /\ p # q
    /\ pc[p] = "append"
    /\ pc[q] = "append"
    /\ loc[p].user_id = loc[q].user_id
    /\ loc[p].session_id # loc[q].session_id
    /\ DocsWithSession(chat_collection, loc[p].user_id, loc[p].session_id) # {}
    /\ DocsWithSession(chat_collection, loc[q].user_id, loc[q].session_id) # {}

\* the collection after p's append and then q's
AppendedInOrder(p, q) ==
    push_message(push_message(chat_collection, loc[p].user_id, loc[p].session_id,
                              TurnOf(p)).coll,
                 loc[q].user_id, loc[q].session_id, TurnOf(q))

\* C14: a chat POST whose append matches puts its Turn at the tail of its own
\* Session and leaves every other Session of the user as it was; and when two
\* workers of one user are about to append to two different existing Sessions,
\* both appends match in either order and both orders give the same collection.
C14_IndependentAppends ==
    [][/\ \A p \in Procs :
            MatchStep(p) =>
                LET h == HistoryOf(chat_collection, loc[p].user_id)
                    g == HistoryOf(chat_collection', loc[p].user_id)
                IN \E k \in 1..Len(h) :
                    /\ h[k].session_id = loc[p].session_id
                    /\ ExtendedAt(h, g, k)
                    /\ g[k].messages[Len(g[k].messages)] = TurnOf(p)
       /\ \A p, q \in Procs :
            TwoAppends(p, q) =>
                /\ AppendedInOrder(p, q).matched_count = 1
                /\ AppendedInOrder(q, p).matched_count = 1
                /\ AppendedInOrder(p, q).coll = AppendedInOrder(q, p).coll
      ]_vars

C14_Witness ==
    LET h == HistoryOf(chat_collection, SeedUser) IN
    /\ started = 2
    /\ \A p \in Procs : pc[p] = "idle"
    /\ Len(h) = 2
    /\ h[1].session_id # h[2].session_id
    /\ Len(h[1].messages) = 2
    /\ Len(h[2].messages) = 2
    /\ h[1].messages[2] # h[2].messages[2]

\* the step is one of a request of user u
ActsFor(u) ==
    \/ \E p \in Procs :
        /\ pc'[p] # pc[p]
        /\ u = (IF pc[p] = "idle" THEN loc'[p].user_id ELSE loc[p].user_id)
    \/ /\ pc' = pc
       /\ started' # started
       /\ last'.req.cookie = u

\* the step is a whole read or delete request of the given view
Answered(view) ==
    /\ pc' = pc
    /\ started' # started
    /\ last'.req.view = view

\* C15: a step of a request of user A leaves the document of every other user as it
\* was and creates documents for A only; history_detail and history_list answer from
\* A's own document only, so a session_id stored only under another user gets the
\* empty history.
C15_PerUserIsolation ==
    [][/\ \A i \in 1..Len(chat_collection) :
            ~ActsFor(chat_collection[i].user_id) =>
                /\ i <= Len(chat_collection')
                /\ chat_collection'[i] = chat_collection[i]
       /\ \A i \in (Len(chat_collection) + 1)..Len(chat_collection') :
            ActsFor(chat_collection'[i].user_id)
       /\ Answered("detail") =>
            LET h == HistoryOf(chat_collection, last'.req.cookie)
                own == { k \in 1..Len(h) : h[k].session_id = last'.req.session_id }
            IN IF own = {}
               THEN last'.resp.body = [history |-> <<>>]
               ELSE \E k \in own :
                        /\ last'.resp.body.history = h[k].messages
                        /\ last'.resp.body.created_at = h[k].created_at
       /\ Answered("list") =>
            LET h == HistoryOf(chat_collection, last'.req.cookie)
                out == last'.resp.body.sessions
            IN /\ Len(out) = Len(h)
               /\ \A j \in 1..Len(out) : out[j].session_id \in IdsIn(h)
      ]_vars

C15_Witness ==
    /\ last.req.view = "detail"
    /\ last.req.cookie # ""
    /\ last.req.session_id \in StoredIds(chat_collection)
    /\ last.req.session_id \notin IdsIn(HistoryOf(chat_collection, last.req.cookie))
    /\ last.resp.body = [history |-> <<>>]

\* C16: a delete of S by user A leaves A's sessions as they were less those named S
\* (the others keep session_id, created_at, messages and their order) and every
\* other document untouched; it answers 200 deleted exactly when a Session named S
\* was stored, and 404 with the collection unchanged otherwise.
C16_DeleteOnlyMatching ==
    [][(Answered("delete") /\ last'.req.cookie # "" /\ last'.req.method = "POST") =>
        LET A == last'.req.cookie
            S == last'.req.session_id
            h == HistoryOf(chat_collection, A)
        IN /\ HistoryOf(chat_collection', A) = Others(h, S)
           /\ Len(chat_collection') = Len(chat_collection)
           /\ \A i \in 1..Len(chat_collection) :
                chat_collection[i].user_id # A => chat_collection'[i] = chat_collection[i]
           /\ IF S \in IdsIn(h)
              THEN /\ last'.resp.status = 200
                   /\ last'.resp.body = [deleted |-> TRUE, session_id |-> S]
                   /\ Len(HistoryOf(chat_collection', A)) < Len(h)
              ELSE /\ last'.resp.status = 404
                   /\ last'.resp.body.deleted = FALSE
                   /\ chat_collection' = chat_collection
      ]_vars

C16_Witness ==
    /\ last.req.view = "delete"
    /\ last.resp.status = 200
    /\ started = 1
    /\ HistoryOf(chat_collection, SeedUser) = Others(SeedHistory, last.req.session_id)
    /\ Len(HistoryOf(chat_collection, SeedUser)) = 1

\* C17: when the conditional append of a chat POST runs and a Session of the user
\* carries the supplied session_id, the request ends there: it answers 200 with
\* that same session_id, the user's document has as many Sessions as before, and
\* the Turn is at the tail of the first Session carrying the identifier.
C17_ExistingSessionKept ==
    [][\A p \in Procs :
        (/\ pc[p] = "append"
         /\ pc'[p] # "append"
         /\ DocsWithSession(chat_collection, loc[p].user_id, loc[p].session_id) # {})
        => LET h == HistoryOf(chat_collection, loc[p].user_id)
               g == HistoryOf(chat_collection', loc[p].user_id)
               k == Min({ j \in 1..Len(h) : h[j].session_id = loc[p].session_id })
           IN /\ pc'[p] = "idle"
              /\ req[p].session_id # ""
              /\ last'.req = req[p]
              /\ last'.resp.status = 200
              /\ last'.resp.body.session_id = req[p].session_id
              /\ last'.resp.body.reply = loc[p].bot_reply
              /\ Len(g) = Len(h)
              /\ g[k].messages = Append(h[k].messages, TurnOf(p))
              /\ \A j \in 1..Len(h) : j # k => g[j] = h[j]
      ]_vars

C17_Witness ==
    /\ last.req.view = "chat"
    /\ last.req.session_id # ""
    /\ last.resp.status = 200
    /\ last.resp.body.session_id = last.req.session_id
    /\ LET h == HistoryOf(chat_collection, last.req.cookie) IN
       /\ Len(h) = 1
       /\ h[1].session_id = last.req.session_id
       /\ Len(h[1].messages) = 2

\* the number of Turns stored in a list of Sessions
RECURSIVE TotalTurns(_)
TotalTurns(h) ==
    IF h = <<>> THEN 0 ELSE Len(Head(h).messages) + TotalTurns(Tail(h))

\* the step in which a chat POST writes its Turn and answers
CompletingStep(p) == NewPushStep(p) \/ MatchStep(p) \/ HealPushStep(p)

\* C18: an accepted chat POST writes to a document that exists (ensure_user_doc ran
\* first and documents are never removed); its completing step adds exactly one
\* Turn, its own, to exactly one Session of its user (a newly created one when the
\* targeted Session is gone by then), and no other step of it adds or removes a
\* Turn; under every interleaving with other POSTs and deletes.
C18_OneTurnPerSubmission ==
    [][\A p \in Procs :
        LET u == loc[p].user_id
            h == HistoryOf(chat_collection, u)
            g == HistoryOf(chat_collection', u)
        IN
        /\ pc[p] \in {"push_new", "append", "heal", "push_heal"} =>
                Cardinality(DocsOf(chat_collection, u)) = 1
        /\ CompletingStep(p) =>
            /\ last'.resp.status = 200
            /\ TotalTurns(g) = TotalTurns(h) + 1
            /\ \/ /\ MatchStep(p)
                  /\ Len(g) = Len(h)
                  /\ \E k \in 1..Len(h) :
                        /\ ExtendedAt(h, g, k)
                        /\ g[k].messages[Len(g[k].messages)] = TurnOf(p)
               \/ /\ ~MatchStep(p)
                  /\ SessionAdded(h, g)
                  /\ g[Len(g)].messages = <<TurnOf(p)>>
                  /\ g[Len(g)].session_id = last'.resp.body.session_id
            /\ \A v \in cookies : v # u =>
                    HistoryOf(chat_collection', v) = HistoryOf(chat_collection, v)
        /\ (pc[p] # "idle" /\ pc'[p] # pc[p] /\ ~CompletingStep(p)) =>
            \A v \in cookies : HistoryOf(chat_collection', v) = HistoryOf(chat_collection, v)
      ]_vars

\* a POST for a seeded Session finished after a delete of its user ran while it was
\* in flight, and its Turn is in a new Session at the tail
C18_Witness ==
    /\ last.req.view = "chat"
    /\ last.resp.status = 200
    /\ last.req.session_id \in IdsIn(SeedHistory)
    /\ SelectOthers(recorded, last.req.cookie) = recorded
    /\ LET h == HistoryOf(chat_collection, last.req.cookie) IN
       /\ Len(h) >= 1
       /\ h[Len(h)].session_id = last.req.session_id
       /\ h[Len(h)].messages = <<Turn(strip(last.req.message), last.resp.body.reply)>>

\* C19: in every reachable state every stored Session holds at least one Turn,
\* every stored Turn's user text is non-empty after trimming, and history_list
\* gives no Session the empty preview.
C19_NoEmptySession ==
    /\ \A i \in 1..Len(chat_collection) :
        \A k \in 1..Len(chat_collection[i].chat_history) :
            LET m == chat_collection[i].chat_history[k].messages IN
            /\ Len(m) >= 1
            /\ \A t \in 1..Len(m) : strip(m[t].user) # <<>>
    /\ \A u \in cookies :
        LET out == history_list(chat_collection, u) IN
        \A j \in 1..Len(out) : out[j].preview # <<>>
    /\ last.req.view = "list" =>
        \A j \in 1..Len(last.resp.body.sessions) :
            last.resp.body.sessions[j].preview # <<>>

C19_Witness ==
    /\ last.req.view = "list"
    /\ Len(last.resp.body.sessions) = 1
    /\ last.resp.body.sessions = history_list(chat_collection, last.req.cookie)
    /\ last.resp.body.sessions[1].preview = <<"h", "i">>

====
